---- MODULE Spec2Model ----
(***************************************************************************)
(* Item lifecycle of likerberi/blog1: the in-memory ItemRepository /       *)
(* ItemService pair (src/app/repository.py, src/app/services.py) and the   *)
(* SQLAlchemy-backed ItemDBRepository / ItemDBService pair                 *)
(* (src/app/repository_db.py, src/app/services_db.py).                     *)
(*                                                                         *)
(* Optional[T] values are modelled as sequences of length at most one:     *)
(* None is <<>> and a present value v is <<v>>.                            *)
(* datetime.utcnow() is modelled as a reading of a clock that never goes   *)
(* backwards but need not advance between two readings.                    *)
(***************************************************************************)
EXTENDS Integers, Sequences, FiniteSets, TLC

\* ------------------------------------------------------------------ bounds
MaxId    == 2    \* creation stops once this id has been handed out
MaxClock == 1    \* largest clock reading
NumProcs == 2    \* concurrent create requests
MaxAuthId == 1   \* creation through the protected routes stops once this id is handed out
MaxTicks == 2    \* how often the clock of the auth module advances

\* Titles differ only in case: the comparison is exact.
Titles == {"Buy milk", "buy milk"}
Descs  == {"dup"}
Ids    == 1..MaxId
Procs  == 1..NumProcs

None    == <<>>
Some(v) == <<v>>
Opt(S)  == {None} \cup {Some(v) : v \in S}

\* schemas.ItemCreate / schemas.ItemUpdate, already validated by the caller
ItemCreate == [title : Titles, description : Opt(Descs)]
ItemUpdate == [title : Opt(Titles), description : Opt(Descs), is_done : Opt(BOOLEAN)]

VARIABLES
    backend,     \* "mem": ItemService(ItemRepository()); "db": ItemDBService(session)
    items,       \* ItemRepository._items, an insertion-ordered dict, as a sequence of Item
    next_id,     \* ItemRepository._next_id
    rows,        \* the items table: function from primary key to row
    clock,       \* last value returned by datetime.utcnow()
    last,        \* the last service call: its arguments and what it returned
    issued,      \* history: ids handed out by ItemRepository since construction / last reset
    everIssued,  \* history: ids handed out by ItemRepository since construction
    deleted,     \* history: ids deleted from ItemRepository since construction / last reset
    procs,       \* concurrent create requests: position and locals of each
    lastDb,      \* both services side by side: the last call as ItemDBService answered it
    createAfterTopDelete,  \* history: a create was made after the highest id was deleted
    fake_users_db,  \* auth.fake_users_db: function from username to user record
    passwordOf,  \* history: the password each user registered with
    minute,      \* datetime.utcnow() as the auth module reads it, in minutes
    authLast,    \* the last request to an /api/v3 route and its answer
    loopTime,    \* the event loop's clock, in tenths of a second
    fetch,       \* the /api/v4/async/sequential or /concurrent request in progress
    coros,       \* requests to /api/v4/async/items and /background/multiple, one per slot
    upload_dir,  \* the files under UPLOAD_DIR: function from file path to size in bytes
    uploadNow,   \* datetime.now() as routes_upload reads it, in seconds
    uploadLast,  \* the last request to an /api/v5 route and its answer
    threads,     \* requests served by threadpool threads: position and locals of each
    seeded       \* whether the store held an item when the threads started

pairVars == <<lastDb, createAfterTopDelete>>
authVars == <<fake_users_db, passwordOf, minute, authLast>>
asyncVars == <<loopTime, fetch, coros>>
uploadVars == <<upload_dir, uploadNow, uploadLast>>
threadVars == <<threads, seeded>>
otherVars == <<asyncVars, uploadVars, threadVars>>

vars == <<backend, items, next_id, rows, clock, last, issued, everIssued, deleted, procs,
          pairVars, authVars, otherVars>>

\* --------------------------------------------------- Python dict, in order
DictKeys(d) == {d[i].id : i \in DOMAIN d}

DictGet(d, k) ==
    LET S == {i \in DOMAIN d : d[i].id = k}
    IN  IF S = {} THEN None ELSE Some(d[CHOOSE i \in S : TRUE])

DictSet_MoveToEnd(d, k, v) == Append(SelectSeq(d, LAMBDA e : e.id # k), v)

DictSet(d, k, v) ==
    IF k \in DictKeys(d)
    THEN [i \in DOMAIN d |-> IF d[i].id = k THEN v ELSE d[i]]
    ELSE Append(d, v)

DictPop_ByIndex(d, k) ==
    [ret |-> IF k \in DOMAIN d THEN Some(d[k]) ELSE None,
     d   |-> IF k \in DOMAIN d
             THEN SubSeq(d, 1, k - 1) \o SubSeq(d, k + 1, Len(d))
             ELSE d]

DictPop(d, k) ==
    [ret |-> DictGet(d, k),
     d   |-> SelectSeq(d, LAMBDA e : e.id # k)]

\* ------------------------------------------- ItemRepository (in memory)
\* A store value st is [items, next_id].
ItemRepository_init == [items |-> <<>>, next_id |-> 1]

ItemRepository_list_items(st) == st.items

ItemRepository_get_item_ByIndex(st, item_id) ==
    IF item_id \in DOMAIN st.items THEN Some(st.items[item_id]) ELSE None

ItemRepository_get_item(st, item_id) == DictGet(st.items, item_id)

ItemRepository_create_item_LenId(st, title, description, now) ==
    LET item == [id |-> Len(st.items) + 1, title |-> title, description |-> description,
                 is_done |-> FALSE, created_at |-> now, updated_at |-> now]
    IN  [st   |-> [items |-> DictSet(st.items, item.id, item), next_id |-> st.next_id + 1],
         item |-> item]

ItemRepository_create_item_NoIncr(st, title, description, now) ==
    LET item == [id |-> st.next_id, title |-> title, description |-> description,
                 is_done |-> FALSE, created_at |-> now, updated_at |-> now]
    IN  [st   |-> [items |-> DictSet(st.items, item.id, item), next_id |-> st.next_id],
         item |-> item]

ItemRepository_create_item(st, title, description, now) ==
    LET item == [id |-> st.next_id, title |-> title, description |-> description,
                 is_done |-> FALSE, created_at |-> now, updated_at |-> now]
    IN  [st   |-> [items |-> DictSet(st.items, item.id, item), next_id |-> st.next_id + 1],
         item |-> item]

\* The fields of an Item after the three "is not None" assignments.
ApplyFields_AlwaysDescription(item, title, description, is_done) ==
    [item EXCEPT !.title       = IF title # None THEN title[1] ELSE @,
                 !.description = description,
                 !.is_done     = IF is_done # None THEN is_done[1] ELSE @]

ApplyFields(item, title, description, is_done) ==
    [item EXCEPT !.title       = IF title # None THEN title[1] ELSE @,
                 !.description = IF description # None THEN description ELSE @,
                 !.is_done     = IF is_done # None THEN is_done[1] ELSE @]

Touch_CreatedAt(item, now) == [item EXCEPT !.created_at = now]

Touch_Forgotten(item, now) == item

Touch(item, now) == [item EXCEPT !.updated_at = now]

\* item is the object held by the dict: mutating it mutates the entry in place.
ItemRepository_update_item(st, item, title, description, is_done, now) ==
    LET new == Touch(ApplyFields(item, title, description, is_done), now)
    IN  [st   |-> [st EXCEPT !.items = DictSet(st.items, item.id, new)],
         item |-> new]

ItemRepository_delete_item(st, item_id) ==
    LET p == DictPop(st.items, item_id)
    IN  [st  |-> [st EXCEPT !.items = p.d],
         ret |-> p.ret # None]

ItemRepository_reset_KeepCounter(st) == [items |-> <<>>, next_id |-> st.next_id]

ItemRepository_reset(st) == [items |-> <<>>, next_id |-> 1]

\* ------------------------------------------------ ItemService (in memory)
\* TRUE iff _ensure_title_unique raises ValueError.
FirstTitleIs(list, title) == list # <<>> /\ list[1].title = title

TitleIn(list, title) == \E i \in DOMAIN list : list[i].title = title

ItemService_ensure_title_unique(st, title) ==
    TitleIn(ItemRepository_list_items(st), title)

ItemService_list_items(st) == ItemRepository_list_items(st)

ItemService_get_item(st, item_id) == ItemRepository_get_item(st, item_id)

\* Result: the store afterwards, status "ok" / "dup" (ValueError), the item.
ItemService_create_item(st, payload, now) ==
    IF ItemService_ensure_title_unique(st, payload.title)
    THEN [st |-> st, status |-> "dup", ret |-> None]
    ELSE LET r == ItemRepository_create_item(st, payload.title, payload.description, now)
         IN  [st |-> r.st, status |-> "ok", ret |-> Some(r.item)]

NeedsCheck_Never(payload, item) == FALSE

NeedsCheck_WheneverSupplied(payload, item) == payload.title # None

NeedsCheck(payload, item) == payload.title # None /\ payload.title[1] # item.title

ItemService_update_item_CheckFirst(st, item_id, payload, now) ==
    LET got == ItemRepository_get_item(st, item_id)
    IN  IF payload.title # None /\ (got = None \/ payload.title[1] # got[1].title)
           /\ ItemService_ensure_title_unique(st, payload.title[1])
        THEN [st |-> st, status |-> "dup", ret |-> None]
        ELSE IF got = None
             THEN [st |-> st, status |-> "absent", ret |-> None]
             ELSE LET r == ItemRepository_update_item(st, got[1], payload.title,
                                                      payload.description, payload.is_done, now)
                  IN  [st |-> r.st, status |-> "ok", ret |-> Some(r.item)]

ItemService_update_item(st, item_id, payload, now) ==
    LET got == ItemRepository_get_item(st, item_id)
    IN  IF got = None
        THEN [st |-> st, status |-> "absent", ret |-> None]
        ELSE IF NeedsCheck(payload, got[1])
                /\ ItemService_ensure_title_unique(st, payload.title[1])
             THEN [st |-> st, status |-> "dup", ret |-> None]
             ELSE LET r == ItemRepository_update_item(st, got[1], payload.title,
                                                      payload.description, payload.is_done, now)
                  IN  [st |-> r.st, status |-> "ok", ret |-> Some(r.item)]

ItemService_delete_item(st, item_id) == ItemRepository_delete_item(st, item_id)

ItemService_reset(st) == ItemRepository_reset(st)

\* --------------------------------------- ItemDBRepository (items table)
\* A table value db is a function from primary key to row.  The id column is
\* an INTEGER PRIMARY KEY of SQLite: a new row gets the largest key + 1.
MaxKey(db) == IF DOMAIN db = {} THEN 0 ELSE CHOOSE k \in DOMAIN db : \A j \in DOMAIN db : j <= k

KthKey(db, i) == CHOOSE k \in DOMAIN db : Cardinality({j \in DOMAIN db : j <= k}) = i

ItemDBRepository_list_items(db) == [i \in 1..Cardinality(DOMAIN db) |-> db[KthKey(db, i)]]

ItemDBRepository_get_item(db, item_id) ==
    IF item_id \in DOMAIN db THEN Some(db[item_id]) ELSE None

ItemDBRepository_get_item_by_title_AnyRow(db, title) ==
    LET l == ItemDBRepository_list_items(db)
    IN  IF l = <<>> THEN None ELSE Some(l[1])

ItemDBRepository_get_item_by_title(db, title) ==
    LET l == SelectSeq(ItemDBRepository_list_items(db), LAMBDA r : r.title = title)
    IN  IF l = <<>> THEN None ELSE Some(l[1])

\* created_at and updated_at are column defaults, evaluated one after the other.
ItemDBRepository_create_item(db, title, description, created, updated) ==
    LET item == [id |-> MaxKey(db) + 1, title |-> title, description |-> description,
                 is_done |-> FALSE, created_at |-> created, updated_at |-> updated]
    IN  [st   |-> [k \in DOMAIN db \cup {item.id} |-> IF k = item.id THEN item ELSE db[k]],
         item |-> item]

ItemDBRepository_update_item(db, item, title, description, is_done, now) ==
    LET new == Touch(ApplyFields(item, title, description, is_done), now)
    IN  [st   |-> [db EXCEPT ![item.id] = new],
         item |-> new]

ItemDBRepository_delete_item(db, item) ==
    [st  |-> [k \in DOMAIN db \ {item.id} |-> db[k]],
     ret |-> TRUE]

ItemDBRepository_delete_all(db) == [k \in {} |-> 0]

\* ------------------------------------------------- ItemDBService (table)
ItemDBService_ensure_title_unique(db, title) ==
    ItemDBRepository_get_item_by_title(db, title) # None

ItemDBService_list_items(db) == ItemDBRepository_list_items(db)

ItemDBService_get_item(db, item_id) == ItemDBRepository_get_item(db, item_id)

ItemDBService_create_item(db, payload, created, updated) ==
    IF ItemDBService_ensure_title_unique(db, payload.title)
    THEN [st |-> db, status |-> "dup", ret |-> None]
    ELSE LET r == ItemDBRepository_create_item(db, payload.title, payload.description,
                                               created, updated)
         IN  [st |-> r.st, status |-> "ok", ret |-> Some(r.item)]

ItemDBService_update_item_MutateFirst(db, item_id, payload, now) ==
    LET got == ItemDBRepository_get_item(db, item_id)
    IN  IF got = None
        THEN [st |-> db, status |-> "absent", ret |-> None]
        ELSE LET r == ItemDBRepository_update_item(db, got[1], payload.title,
                                                   payload.description, payload.is_done, now)
             IN  IF NeedsCheck(payload, got[1])
                    /\ ItemDBService_ensure_title_unique(db, payload.title[1])
                 THEN [st |-> r.st, status |-> "dup", ret |-> None]
                 ELSE [st |-> r.st, status |-> "ok", ret |-> Some(r.item)]

ItemDBService_update_item(db, item_id, payload, now) ==
    LET got == ItemDBRepository_get_item(db, item_id)
    IN  IF got = None
        THEN [st |-> db, status |-> "absent", ret |-> None]
        ELSE IF NeedsCheck(payload, got[1])
                /\ ItemDBService_ensure_title_unique(db, payload.title[1])
             THEN [st |-> db, status |-> "dup", ret |-> None]
             ELSE LET r == ItemDBRepository_update_item(db, got[1], payload.title,
                                                        payload.description, payload.is_done, now)
                  IN  [st |-> r.st, status |-> "ok", ret |-> Some(r.item)]

ItemDBService_delete_item_NoLookup(db, item_id) ==
    [st  |-> [k \in DOMAIN db \ {item_id} |-> db[k]],
     ret |-> TRUE]

ItemDBService_delete_item(db, item_id) ==
    LET got == ItemDBRepository_get_item(db, item_id)
    IN  IF got = None
        THEN [st |-> db, ret |-> FALSE]
        ELSE ItemDBRepository_delete_item(db, got[1])

ItemDBService_reset(db) == ItemDBRepository_delete_all(db)

\* ------------------------------------------------------------ the system
\* What the caller saw of the last call: the operation, the id it was given or
\* was returned, and the outcome: "ok", "dup" (ValueError raised) or "absent"
\* (None returned; False for delete).
\* Status code each item route answers with for an outcome of its service call.
routes_create_item(status) == IF status = "dup" THEN 400 ELSE 201

routes_get_item(status) == IF status = "absent" THEN 404 ELSE 200

routes_update_item_NoNoneCheck(status) == IF status = "dup" THEN 400 ELSE 200

routes_update_item(status) ==
    IF status = "dup" THEN 400 ELSE IF status = "absent" THEN 404 ELSE 200

routes_delete_item(status) == IF status = "absent" THEN 404 ELSE 200

Respond(op, status) ==
    CASE op = "create" -> routes_create_item(status)
      [] op = "get"    -> routes_get_item(status)
      [] op = "update" -> routes_update_item(status)
      [] op = "delete" -> routes_delete_item(status)
      [] op \in {"list", "reset"} -> 200
      [] OTHER -> 0

Call(op, id, status) ==
    [op |-> op, id |-> id, status |-> status, code |-> Respond(op, status)]

Repo == [items |-> items, next_id |-> next_id]

IdleProcs == [p \in Procs |-> [pc |-> "idle", title |-> None, description |-> None, id |-> 0]]

\* No fetch request has been made; no request occupies a slot.
IdleFetch == [route |-> "none", start |-> 0, calls |-> <<>>, finished |-> <<>>,
              results |-> <<>>, elapsed |-> None]

IdleCoros == [p \in Procs |-> [pc |-> "idle", route |-> "none", title |-> None,
                               description |-> None, email |-> None, code |-> 0,
                               id |-> 0, tasks |-> <<>>, ran |-> <<>>]]

IdleThreads == [p \in Procs |-> [pc |-> "idle", op |-> "none", title |-> None,
                                 description |-> None, id |-> 0, tmp |-> 0,
                                 ret |-> None]]

\* A request to an /api/v5 route: the file sent (None when the request has no
\* file), the status code, and the filename and size of the response body.
UploadCall(op, file, code, filename, size) ==
    [op |-> op, file |-> file, code |-> code, filename |-> filename, size |-> size]

AuthCall(op, user, code, served) ==
    [op |-> op, user |-> user, code |-> code, served |-> served]

InitState ==
    /\ items = ItemRepository_init.items
    /\ next_id = ItemRepository_init.next_id
    /\ rows = [k \in {} |-> 0]
    /\ clock = 0
    /\ last = Call("init", 0, "ok")
    /\ issued = <<>>
    /\ everIssued = {}
    /\ deleted = {}
    /\ procs = IdleProcs
    /\ lastDb = Call("init", 0, "ok")
    /\ createAfterTopDelete = FALSE
    /\ fake_users_db = [u \in {} |-> 0]
    /\ passwordOf = [u \in {} |-> 0]
    /\ minute = 0
    /\ authLast = AuthCall("init", None, 0, FALSE)
    /\ loopTime = 0
    /\ fetch = IdleFetch
    /\ coros = IdleCoros
    /\ upload_dir = [f \in {} |-> 0]
    /\ uploadNow = 0
    /\ uploadLast = UploadCall("init", None, 0, None, 0)
    /\ threads = IdleThreads

Init == backend \in {"mem", "db"} /\ InitState /\ seeded = FALSE

\* ---- requests served by the memory-backed ItemService, one at a time
Create(payload, now) ==
    /\ backend = "mem"
    /\ LET r == ItemService_create_item(Repo, payload, now)
       IN  /\ r.status = "ok" => r.ret[1].id <= MaxId
           /\ items' = r.st.items
           /\ next_id' = r.st.next_id
           /\ clock' = IF r.status = "ok" THEN now ELSE clock
           /\ last' = Call("create", IF r.status = "ok" THEN r.ret[1].id ELSE 0, r.status)
           /\ issued' = IF r.status = "ok" THEN Append(issued, r.ret[1].id) ELSE issued
           /\ everIssued' = IF r.status = "ok" THEN everIssued \cup {r.ret[1].id} ELSE everIssued
    /\ UNCHANGED <<backend, rows, deleted, procs, pairVars, authVars, otherVars>>

Update(item_id, payload, now) ==
    /\ backend = "mem"
    /\ LET r == ItemService_update_item(Repo, item_id, payload, now)
       IN  /\ items' = r.st.items
           /\ next_id' = r.st.next_id
           /\ clock' = IF r.status = "ok" THEN now ELSE clock
           /\ last' = Call("update", item_id, r.status)
    /\ UNCHANGED <<backend, rows, issued, everIssued, deleted, procs, pairVars, authVars, otherVars>>

Delete(item_id) ==
    /\ backend = "mem"
    /\ LET r == ItemService_delete_item(Repo, item_id)
       IN  /\ items' = r.st.items
           /\ next_id' = r.st.next_id
           /\ last' = Call("delete", item_id, IF r.ret THEN "ok" ELSE "absent")
           /\ deleted' = IF r.ret THEN deleted \cup {item_id} ELSE deleted
    /\ UNCHANGED <<backend, rows, clock, issued, everIssued, procs, pairVars, authVars, otherVars>>

Get(item_id) ==
    /\ backend = "mem"
    /\ LET r == ItemService_get_item(Repo, item_id)
       IN  last' = Call("get", item_id, IF r = None THEN "absent" ELSE "ok")
    /\ UNCHANGED <<backend, items, next_id, rows, clock, issued, everIssued, deleted, procs, pairVars, authVars, otherVars>>

List ==
    /\ backend = "mem"
    /\ last' = Call("list", 0, "ok")
    /\ UNCHANGED <<backend, items, next_id, rows, clock, issued, everIssued, deleted, procs, pairVars, authVars, otherVars>>

Reset ==
    /\ backend = "mem"
    /\ LET st == ItemService_reset(Repo)
       IN  /\ items' = st.items
           /\ next_id' = st.next_id
    /\ last' = Call("reset", 0, "ok")
    /\ issued' = <<>>
    /\ deleted' = {}
    /\ UNCHANGED <<backend, rows, clock, everIssued, procs, pairVars, authVars, otherVars>>

\* ---- requests served by the table-backed ItemDBService, one at a time
DbCreate(payload, created, updated) ==
    /\ backend = "db"
    /\ LET r == ItemDBService_create_item(rows, payload, created, updated)
       IN  /\ r.status = "ok" => r.ret[1].id <= MaxId
           /\ rows' = r.st
           /\ clock' = IF r.status = "ok" THEN updated ELSE clock
           /\ last' = Call("create", IF r.status = "ok" THEN r.ret[1].id ELSE 0, r.status)
    /\ UNCHANGED <<backend, items, next_id, issued, everIssued, deleted, procs, pairVars, authVars, otherVars>>

DbUpdate(item_id, payload, now) ==
    /\ backend = "db"
    /\ LET r == ItemDBService_update_item(rows, item_id, payload, now)
       IN  /\ rows' = r.st
           /\ clock' = IF r.status = "ok" THEN now ELSE clock
           /\ last' = Call("update", item_id, r.status)
    /\ UNCHANGED <<backend, items, next_id, issued, everIssued, deleted, procs, pairVars, authVars, otherVars>>

DbDelete(item_id) ==
    /\ backend = "db"
    /\ LET r == ItemDBService_delete_item(rows, item_id)
       IN  /\ rows' = r.st
           /\ last' = Call("delete", item_id, IF r.ret THEN "ok" ELSE "absent")
    /\ UNCHANGED <<backend, items, next_id, clock, issued, everIssued, deleted, procs, pairVars, authVars, otherVars>>

DbGet(item_id) ==
    /\ backend = "db"
    /\ LET r == ItemDBService_get_item(rows, item_id)
       IN  last' = Call("get", item_id, IF r = None THEN "absent" ELSE "ok")
    /\ UNCHANGED <<backend, items, next_id, rows, clock, issued, everIssued, deleted, procs, pairVars, authVars, otherVars>>

DbList ==
    /\ backend = "db"
    /\ last' = Call("list", 0, "ok")
    /\ UNCHANGED <<backend, items, next_id, rows, clock, issued, everIssued, deleted, procs, pairVars, authVars, otherVars>>

DbReset ==
    /\ backend = "db"
    /\ rows' = ItemDBService_reset(rows)
    /\ last' = Call("reset", 0, "ok")
    /\ UNCHANGED <<backend, items, next_id, clock, issued, everIssued, deleted, procs, pairVars, authVars, otherVars>>

Times == clock..MaxClock

Next ==
    \/ \E payload \in ItemCreate, now \in Times : Create(payload, now)
    \/ \E item_id \in Ids, payload \in ItemUpdate, now \in Times : Update(item_id, payload, now)
    \/ \E item_id \in Ids : Delete(item_id)
    \/ \E item_id \in Ids : Get(item_id)
    \/ List
    \/ Reset
    \/ \E payload \in ItemCreate, created \in Times :
           \E updated \in created..MaxClock : DbCreate(payload, created, updated)
    \/ \E item_id \in Ids, payload \in ItemUpdate, now \in Times : DbUpdate(item_id, payload, now)
    \/ \E item_id \in Ids : DbDelete(item_id)
    \/ \E item_id \in Ids : DbGet(item_id)
    \/ DbList
    \/ DbReset

Spec == Init /\ [][Next]_vars

\* ---- create requests served concurrently (worker threads of the server):
\* each runs _ensure_title_unique, then the repository's create_item.
RaceCheck(p, payload) ==
    /\ procs[p].pc = "idle"
    /\ LET raises == IF backend = "mem"
                     THEN ItemService_ensure_title_unique(Repo, payload.title)
                     ELSE ItemDBService_ensure_title_unique(rows, payload.title)
       IN  procs' = [procs EXCEPT ![p] = [pc          |-> IF raises THEN "raised" ELSE "checked",
                                          title       |-> Some(payload.title),
                                          description |-> payload.description,
                                          id          |-> 0]]
    /\ UNCHANGED <<backend, items, next_id, rows, clock, last, issued, everIssued, deleted, pairVars, authVars, otherVars>>

RaceInsert(p, created, updated) ==
    /\ procs[p].pc = "checked"
    /\ IF backend = "mem"
       THEN LET r == ItemRepository_create_item(Repo, procs[p].title[1],
                                                procs[p].description, updated)
            IN  /\ created = updated
                /\ items' = r.st.items
                /\ next_id' = r.st.next_id
                /\ procs' = [procs EXCEPT ![p].pc = "done", ![p].id = r.item.id]
                /\ rows' = rows
       ELSE LET r == ItemDBRepository_create_item(rows, procs[p].title[1],
                                                  procs[p].description, created, updated)
            IN  /\ rows' = r.st
                /\ procs' = [procs EXCEPT ![p].pc = "done", ![p].id = r.item.id]
                /\ UNCHANGED <<items, next_id>>
    /\ clock' = updated
    /\ UNCHANGED <<backend, last, issued, everIssued, deleted, pairVars, authVars, otherVars>>

NextRace ==
    \/ \E p \in Procs, payload \in ItemCreate : RaceCheck(p, payload)
    \/ \E p \in Procs, created \in Times :
           \E updated \in created..MaxClock : RaceInsert(p, created, updated)

SpecRace == Init /\ [][NextRace]_vars

\* ---- the same calls made on ItemService and on ItemDBService, side by side.
\* Each service starts on its own new store; last is ItemService's answer and
\* lastDb is ItemDBService's.  The histories of ItemRepository are not kept here.
InitPair == backend = "both" /\ InitState /\ seeded = FALSE

TopDeleted == next_id > 1 /\ (next_id - 1) \notin DictKeys(items)

PairCreate(payload, now) ==
    /\ backend = "both"
    /\ LET m == ItemService_create_item(Repo, payload, now)
           d == ItemDBService_create_item(rows, payload, now, now)
       IN  /\ m.status = "ok" => m.ret[1].id <= MaxId
           /\ items' = m.st.items
           /\ next_id' = m.st.next_id
           /\ rows' = d.st
           /\ clock' = IF m.status = "ok" \/ d.status = "ok" THEN now ELSE clock
           /\ last' = Call("create", IF m.status = "ok" THEN m.ret[1].id ELSE 0, m.status)
           /\ lastDb' = Call("create", IF d.status = "ok" THEN d.ret[1].id ELSE 0, d.status)
           /\ createAfterTopDelete' =
                  (createAfterTopDelete \/ (m.status = "ok" /\ TopDeleted))
    /\ UNCHANGED <<backend, issued, everIssued, deleted, procs, authVars, otherVars>>

PairUpdate(item_id, payload, now) ==
    /\ backend = "both"
    /\ LET m == ItemService_update_item(Repo, item_id, payload, now)
           d == ItemDBService_update_item(rows, item_id, payload, now)
       IN  /\ items' = m.st.items
           /\ next_id' = m.st.next_id
           /\ rows' = d.st
           /\ clock' = IF m.status = "ok" \/ d.status = "ok" THEN now ELSE clock
           /\ last' = Call("update", item_id, m.status)
           /\ lastDb' = Call("update", item_id, d.status)
    /\ UNCHANGED <<backend, issued, everIssued, deleted, procs, createAfterTopDelete, authVars, otherVars>>

PairDelete(item_id) ==
    /\ backend = "both"
    /\ LET m == ItemService_delete_item(Repo, item_id)
           d == ItemDBService_delete_item(rows, item_id)
       IN  /\ items' = m.st.items
           /\ next_id' = m.st.next_id
           /\ rows' = d.st
           /\ last' = Call("delete", item_id, IF m.ret THEN "ok" ELSE "absent")
           /\ lastDb' = Call("delete", item_id, IF d.ret THEN "ok" ELSE "absent")
    /\ UNCHANGED <<backend, clock, issued, everIssued, deleted, procs, createAfterTopDelete,
                   authVars, otherVars>>

PairGet(item_id) ==
    /\ backend = "both"
    /\ last' = Call("get", item_id,
                    IF ItemService_get_item(Repo, item_id) = None THEN "absent" ELSE "ok")
    /\ lastDb' = Call("get", item_id,
                      IF ItemDBService_get_item(rows, item_id) = None THEN "absent" ELSE "ok")
    /\ UNCHANGED <<backend, items, next_id, rows, clock, issued, everIssued, deleted, procs,
                   createAfterTopDelete, authVars, otherVars>>

PairList ==
    /\ backend = "both"
    /\ last' = Call("list", 0, "ok")
    /\ lastDb' = Call("list", 0, "ok")
    /\ UNCHANGED <<backend, items, next_id, rows, clock, issued, everIssued, deleted, procs,
                   createAfterTopDelete, authVars, otherVars>>

NextPair ==
    \/ \E payload \in ItemCreate : PairCreate(payload, clock)
    \/ \E item_id \in Ids, payload \in ItemUpdate : PairUpdate(item_id, payload, clock)
    \/ \E item_id \in Ids : PairDelete(item_id)
    \/ \E item_id \in Ids : PairGet(item_id)
    \/ PairList

SpecPair == InitPair /\ [][NextPair]_vars

\* ------------------------------------------------------------ auth.py
Users     == {"alice", "bob"}
Passwords == {"secret123", "wrongpass"}

SECRET_KEY == "your-secret-key-change-in-production"
Keys       == {SECRET_KEY, "another-key"}

ACCESS_TOKEN_EXPIRE_MINUTES == 30

\* The clock advances by one token lifetime at a time.
Minutes  == {k * ACCESS_TOKEN_EXPIRE_MINUTES : k \in 0..MaxTicks}
ExpTimes == {m + ACCESS_TOKEN_EXPIRE_MINUTES : m \in Minutes}

\* bcrypt through passlib: a hash is not the password, and verify accepts
\* exactly the password that was hashed.
get_password_hash(password) == [scheme |-> "bcrypt", of |-> password]

verify_password_Always(plain_password, hashed_password) == TRUE

verify_password(plain_password, hashed_password) == hashed_password.of = plain_password

get_user(db, username) == IF username \in DOMAIN db THEN Some(db[username]) ELSE None

create_user(db, username, password) ==
    IF username \in DOMAIN db
    THEN [db |-> db, status |-> "exists", user |-> None]
    ELSE LET user == [username |-> username,
                      hashed_password |-> get_password_hash(password),
                      is_active |-> TRUE]
         IN  [db     |-> [u \in DOMAIN db \cup {username} |->
                             IF u = username THEN user ELSE db[u]],
              status |-> "ok",
              user   |-> Some(user)]

authenticate_user(db, username, password) ==
    LET user == get_user(db, username)
    IN  IF user = None THEN None
        ELSE IF ~verify_password(password, user[1].hashed_password) THEN None
        ELSE user

\* jose.jwt: a token is its claims with a signature over them under a key;
\* decode fails (None) on a signature that is not the key's signature of the
\* claims carried, and on an exp earlier than now.
Claims == [sub : Opt(Users), exp : ExpTimes]

jwt_encode(claims, key) == [claims |-> claims, sig |-> <<key, claims>>]

jwt_decode_NoExpiry(token, key, now) ==
    IF token.sig # <<key, token.claims>> THEN None ELSE Some(token.claims)

jwt_decode(token, key, now) ==
    IF token.sig # <<key, token.claims>> THEN None
    ELSE IF token.claims.exp < now THEN None
    ELSE Some(token.claims)

create_access_token(sub, now) ==
    jwt_encode([sub |-> Some(sub), exp |-> now + ACCESS_TOKEN_EXPIRE_MINUTES], SECRET_KEY)

\* What a request may carry as its bearer token: nothing, a token signed
\* under either key, or a token signed without sub to which a sub was added.
Tokens ==
    {jwt_encode(c, k) : c \in Claims, k \in Keys}
    \cup {[claims |-> c, sig |-> <<SECRET_KEY, [c EXCEPT !.sub = None]>>] : c \in Claims}

Bearer == Opt(Tokens)

\* Result: the status code (200: authenticated) and the user record.
get_current_user(db, token, now) ==
    IF token = None THEN [code |-> 401, user |-> None]
    ELSE LET payload == jwt_decode(token[1], SECRET_KEY, now)
         IN  IF payload = None THEN [code |-> 401, user |-> None]
             ELSE IF payload[1].sub = None THEN [code |-> 401, user |-> None]
             ELSE LET user == get_user(db, payload[1].sub[1])
                  IN  IF user = None THEN [code |-> 401, user |-> None]
                      ELSE [code |-> 200, user |-> user]

get_current_active_user(db, token, now) ==
    LET current_user == get_current_user(db, token, now)
    IN  IF current_user.code # 200 THEN current_user
        ELSE IF ~current_user.user[1].is_active THEN [code |-> 400, user |-> None]
        ELSE current_user

\* ------------------------------------------------- api/routes_auth.py
routes_register(db, username, password) ==
    LET r == create_user(db, username, password)
    IN  [db |-> r.db, code |-> IF r.status = "ok" THEN 200 ELSE 400]

routes_login(db, username, password, now) ==
    LET user == authenticate_user(db, username, password)
    IN  IF user = None
        THEN [code |-> 401, access_token |-> None, token_type |-> None]
        ELSE [code         |-> 200,
              access_token |-> Some(create_access_token(user[1].username, now)),
              token_type   |-> Some("bearer")]

routes_read_users_me(db, token, now) ==
    LET current_user == get_current_active_user(db, token, now)
    IN  [code     |-> current_user.code,
         username |-> IF current_user.code = 200
                      THEN Some(current_user.user[1].username) ELSE None]

\* ---- requests to the /api/v3 routes, one at a time.  The protected item
\* routes work on the items table through ItemDBService; item timestamps are
\* readings of clock, which no request here advances.
InitAuth == backend = "auth" /\ InitState /\ seeded = FALSE

Register(username, password) ==
    /\ backend = "auth"
    /\ LET r == routes_register(fake_users_db, username, password)
       IN  /\ fake_users_db' = r.db
           /\ passwordOf' = IF r.code = 200
                            THEN [u \in DOMAIN passwordOf \cup {username} |->
                                     IF u = username THEN password ELSE passwordOf[u]]
                            ELSE passwordOf
           /\ authLast' = AuthCall("register", IF r.code = 200 THEN Some(username) ELSE None,
                                   r.code, FALSE)
    /\ UNCHANGED <<backend, items, next_id, rows, clock, last, issued, everIssued, deleted,
                   procs, pairVars, otherVars, minute>>

Login(username, password) ==
    /\ backend = "auth"
    /\ LET r == routes_login(fake_users_db, username, password, minute)
       IN  authLast' = AuthCall("login", IF r.code = 200 THEN Some(username) ELSE None,
                                r.code, FALSE)
    /\ UNCHANGED <<backend, items, next_id, rows, clock, last, issued, everIssued, deleted,
                   procs, pairVars, otherVars, fake_users_db, passwordOf, minute>>

ReadUsersMe(token) ==
    /\ backend = "auth"
    /\ LET r == routes_read_users_me(fake_users_db, token, minute)
       IN  authLast' = AuthCall("me", r.username, r.code, FALSE)
    /\ UNCHANGED <<backend, items, next_id, rows, clock, last, issued, everIssued, deleted,
                   procs, pairVars, otherVars, fake_users_db, passwordOf, minute>>

Tick ==
    /\ backend = "auth"
    /\ minute + ACCESS_TOKEN_EXPIRE_MINUTES \in Minutes
    /\ minute' = minute + ACCESS_TOKEN_EXPIRE_MINUTES
    /\ UNCHANGED <<backend, items, next_id, rows, clock, last, issued, everIssued, deleted,
                   procs, pairVars, otherVars, fake_users_db, passwordOf, authLast>>

ListItemsProtected(token) ==
    /\ backend = "auth"
    /\ LET current_user == get_current_active_user(fake_users_db, token, minute)
       IN  IF current_user.code # 200
           THEN /\ authLast' = AuthCall("list", None, current_user.code, FALSE)
                /\ rows' = rows
           ELSE /\ authLast' = AuthCall("list", Some(current_user.user[1].username), 200, TRUE)
                /\ rows' = rows
    /\ UNCHANGED <<backend, items, next_id, clock, last, issued, everIssued, deleted, procs,
                   pairVars, otherVars, fake_users_db, passwordOf, minute>>

CreateItemProtected(token) ==
    /\ backend = "auth"
    /\ LET current_user == get_current_active_user(fake_users_db, token, minute)
       IN  IF current_user.code # 200
           THEN /\ authLast' = AuthCall("create", None, current_user.code, FALSE)
                /\ rows' = rows
           ELSE \E payload \in ItemCreate :
                  LET r == ItemDBService_create_item(rows, payload, clock, clock)
                  IN  /\ r.status = "ok" => r.ret[1].id <= MaxAuthId
                      /\ rows' = r.st
                      /\ authLast' = AuthCall("create", Some(current_user.user[1].username),
                                              routes_create_item(r.status), TRUE)
    /\ UNCHANGED <<backend, items, next_id, clock, last, issued, everIssued, deleted, procs,
                   pairVars, otherVars, fake_users_db, passwordOf, minute>>

GetItemProtected(token) ==
    /\ backend = "auth"
    /\ LET current_user == get_current_active_user(fake_users_db, token, minute)
       IN  IF current_user.code # 200
           THEN /\ authLast' = AuthCall("get", None, current_user.code, FALSE)
                /\ rows' = rows
           ELSE \E item_id \in 1..MaxAuthId :
                  LET r == ItemDBService_get_item(rows, item_id)
                  IN  /\ rows' = rows
                      /\ authLast' = AuthCall("get", Some(current_user.user[1].username),
                                              routes_get_item(IF r = None THEN "absent"
                                                                          ELSE "ok"), TRUE)
    /\ UNCHANGED <<backend, items, next_id, clock, last, issued, everIssued, deleted, procs,
                   pairVars, otherVars, fake_users_db, passwordOf, minute>>

UpdateItemProtected(token) ==
    /\ backend = "auth"
    /\ LET current_user == get_current_active_user(fake_users_db, token, minute)
       IN  IF current_user.code # 200
           THEN /\ authLast' = AuthCall("update", None, current_user.code, FALSE)
                /\ rows' = rows
           ELSE \E item_id \in 1..MaxAuthId, payload \in ItemUpdate :
                  LET r == ItemDBService_update_item(rows, item_id, payload, clock)
                  IN  /\ rows' = r.st
                      /\ authLast' = AuthCall("update", Some(current_user.user[1].username),
                                              routes_update_item(r.status), TRUE)
    /\ UNCHANGED <<backend, items, next_id, clock, last, issued, everIssued, deleted, procs,
                   pairVars, otherVars, fake_users_db, passwordOf, minute>>

DeleteItemProtected(token) ==
    /\ backend = "auth"
    /\ LET current_user == get_current_active_user(fake_users_db, token, minute)
       IN  IF current_user.code # 200
           THEN /\ authLast' = AuthCall("delete", None, current_user.code, FALSE)
                /\ rows' = rows
           ELSE \E item_id \in 1..MaxAuthId :
                  LET r == ItemDBService_delete_item(rows, item_id)
                  IN  /\ rows' = r.st
                      /\ authLast' = AuthCall("delete", Some(current_user.user[1].username),
                                              routes_delete_item(IF r.ret THEN "ok"
                                                                          ELSE "absent"), TRUE)
    /\ UNCHANGED <<backend, items, next_id, clock, last, issued, everIssued, deleted, procs,
                   pairVars, otherVars, fake_users_db, passwordOf, minute>>

NextAuth ==
    \/ \E username \in Users, password \in Passwords : Register(username, password)
    \/ \E username \in Users, password \in Passwords : Login(username, password)
    \/ \E token \in Bearer : ReadUsersMe(token)
    \/ Tick
    \/ \E token \in Bearer : ListItemsProtected(token)
    \/ \E token \in Bearer : CreateItemProtected(token)
    \/ \E token \in Bearer : GetItemProtected(token)
    \/ \E token \in Bearer : UpdateItemProtected(token)
    \/ \E token \in Bearer : DeleteItemProtected(token)

SpecAuth == InitAuth /\ [][NextAuth]_vars

\* ------------------------------------- services_async.py, routes_async.py
\* Time on the event loop is counted in tenths of a second.  A coroutine runs
\* until it awaits asyncio.sleep; the loop then runs the other ready
\* coroutines and, when none is ready, moves its clock to the earliest timer.
ItemIdsToFetch == <<1, 2, 3>>

\* simulate_external_api_call awaits asyncio.sleep(0.5)
Delay(item_id) == 5

itemVars == <<items, next_id, rows, clock, last, issued, everIssued, deleted, procs>>

InitAsync == backend \in {"fetch", "async"} /\ InitState /\ seeded = FALSE

NewCalls == [k \in DOMAIN ItemIdsToFetch |-> [pc |-> "new", wake |-> 0]]

\* fetch_sequential awaits one call after the other; asyncio.gather makes a
\* task of every call, and the loop starts the tasks in the order given.
Startable_OneAtATime(f, k) ==
    /\ f.calls[k].pc = "new"
    /\ \A j \in 1..(k - 1) : f.calls[j].pc = "done"

Startable(f, k) ==
    /\ f.calls[k].pc = "new"
    /\ IF f.route = "concurrent"
       THEN \A j \in 1..(k - 1) : f.calls[j].pc # "new"
       ELSE \A j \in 1..(k - 1) : f.calls[j].pc = "done"

\* The list the route returns: result k is the result of call k.
GatherResults(f) == [k \in DOMAIN f.calls |-> ItemIdsToFetch[k]]

FetchSequentialBegin ==
    /\ backend = "fetch"
    /\ fetch.route = "none"
    /\ fetch' = [IdleFetch EXCEPT !.route = "sequential", !.start = loopTime,
                                  !.calls = NewCalls]
    /\ UNCHANGED <<backend, itemVars, pairVars, authVars, loopTime, coros, uploadVars,
                   threadVars>>

FetchConcurrentBegin ==
    /\ backend = "fetch"
    /\ fetch.route = "none"
    /\ fetch' = [IdleFetch EXCEPT !.route = "concurrent", !.start = loopTime,
                                  !.calls = NewCalls]
    /\ UNCHANGED <<backend, itemVars, pairVars, authVars, loopTime, coros, uploadVars,
                   threadVars>>

\* simulate_external_api_call up to its await
CallStart(k) ==
    /\ backend = "fetch"
    /\ k \in DOMAIN fetch.calls
    /\ Startable(fetch, k)
    /\ fetch' = [fetch EXCEPT !.calls[k] =
                    [pc |-> "sleeping", wake |-> loopTime + Delay(ItemIdsToFetch[k])]]
    /\ UNCHANGED <<backend, itemVars, pairVars, authVars, loopTime, coros, uploadVars,
                   threadVars>>

\* simulate_external_api_call from its await to its return
CallFinish(k) ==
    /\ backend = "fetch"
    /\ k \in DOMAIN fetch.calls
    /\ fetch.calls[k].pc = "sleeping"
    /\ fetch.calls[k].wake <= loopTime
    /\ fetch' = [fetch EXCEPT !.calls[k].pc = "done", !.finished = Append(@, k)]
    /\ UNCHANGED <<backend, itemVars, pairVars, authVars, loopTime, coros, uploadVars,
                   threadVars>>

Sleeping(f) == {k \in DOMAIN f.calls : f.calls[k].pc = "sleeping"}

LoopAdvance ==
    /\ backend = "fetch"
    /\ Sleeping(fetch) # {}
    /\ \A k \in DOMAIN fetch.calls : ~Startable(fetch, k)
    /\ \A k \in Sleeping(fetch) : fetch.calls[k].wake > loopTime
    /\ loopTime' = CHOOSE t \in {fetch.calls[k].wake : k \in Sleeping(fetch)} :
                       \A k \in Sleeping(fetch) : t <= fetch.calls[k].wake
    /\ UNCHANGED <<backend, itemVars, pairVars, authVars, fetch, coros, uploadVars,
                   threadVars>>

FetchReturn ==
    /\ backend = "fetch"
    /\ fetch.route # "none"
    /\ fetch.elapsed = None
    /\ \A k \in DOMAIN fetch.calls : fetch.calls[k].pc = "done"
    /\ fetch' = [fetch EXCEPT !.results = GatherResults(fetch),
                              !.elapsed = Some(loopTime - fetch.start)]
    /\ UNCHANGED <<backend, itemVars, pairVars, authVars, loopTime, coros, uploadVars,
                   threadVars>>

\* ---- AsyncItemService and the background tasks of routes_async.py.
\* A coroutine of create_item_async awaits asyncio.sleep once, inside
\* _ensure_title_unique_async and before its query; what follows runs without
\* another await.  Item timestamps are readings of clock, which is not
\* advanced here.
Emails == {"", "user@example.com"}

AsyncItemService_ensure_title_unique_async(db, title) ==
    \E k \in DOMAIN db : db[k].title = title

AsyncItemService_create_item_async_NoCheck(db, payload, created, updated) ==
    LET r == ItemDBRepository_create_item(db, payload.title, payload.description,
                                          created, updated)
    IN  [st |-> r.st, status |-> "ok", ret |-> Some(r.item)]

AsyncItemService_create_item_async(db, payload, created, updated) ==
    IF AsyncItemService_ensure_title_unique_async(db, payload.title)
    THEN [st |-> db, status |-> "dup", ret |-> None]
    ELSE LET r == ItemDBRepository_create_item(db, payload.title, payload.description,
                                               created, updated)
         IN  [st |-> r.st, status |-> "ok", ret |-> Some(r.item)]

\* BackgroundTasks.add_task appends; user_email is None unless the caller
\* passes it, and "if user_email" is false for None and for "".
NotificationService_notify_item_created(tasks, item_id, title, user_email) ==
    tasks \o <<"write_log", "process_item_created">>
          \o (IF user_email # None /\ user_email[1] # ""
              THEN <<"send_email_notification">> ELSE <<>>)

\* BackgroundTasks.__call__ runs the tasks one after the other, first added first.
NextTask_LastAdded(tasks, ran) == tasks[Len(tasks) - Len(ran)]

NextTask(tasks, ran) == tasks[Len(ran) + 1]

CreateItemAsyncBegin(p, payload) ==
    /\ backend = "async"
    /\ coros[p].pc = "idle"
    /\ coros' = [coros EXCEPT ![p].pc = "sleeping", ![p].route = "create",
                              ![p].title = Some(payload.title),
                              ![p].description = payload.description]
    /\ UNCHANGED <<backend, itemVars, pairVars, authVars, loopTime, fetch, uploadVars,
                   threadVars>>

CreateItemAsyncResume(p) ==
    /\ backend = "async"
    /\ coros[p].pc = "sleeping"
    /\ LET payload == [title |-> coros[p].title[1], description |-> coros[p].description]
           r == AsyncItemService_create_item_async(rows, payload, clock, clock)
       IN  IF r.status = "dup"
           THEN /\ coros' = [coros EXCEPT ![p].pc = "returned", ![p].code = 400]
                /\ rows' = rows
           ELSE /\ r.ret[1].id <= MaxId
                /\ rows' = r.st
                /\ coros' = [coros EXCEPT
                       ![p].pc = "returned", ![p].code = 201, ![p].id = r.ret[1].id,
                       ![p].tasks = NotificationService_notify_item_created(
                                        <<>>, r.ret[1].id, r.ret[1].title, None)]
    /\ UNCHANGED <<backend, items, next_id, clock, last, issued, everIssued, deleted, procs,
                   pairVars, authVars, loopTime, fetch, uploadVars, threadVars>>

BackgroundMultipleDemo(p, item_title, user_email) ==
    /\ backend = "async"
    /\ coros[p].pc = "idle"
    /\ coros' = [coros EXCEPT
           ![p].pc = "returned", ![p].route = "multiple", ![p].code = 200,
           ![p].title = Some(item_title), ![p].email = Some(user_email),
           ![p].tasks = NotificationService_notify_item_created(
                            <<>>, 999, item_title, Some(user_email))]
    /\ UNCHANGED <<backend, itemVars, pairVars, authVars, loopTime, fetch, uploadVars,
                   threadVars>>

\* The response is sent; the tasks added by the handler go with it.
SendResponse(p) ==
    /\ backend = "async"
    /\ coros[p].pc = "returned"
    /\ coros' = [coros EXCEPT ![p].pc = "responded"]
    /\ UNCHANGED <<backend, itemVars, pairVars, authVars, loopTime, fetch, uploadVars,
                   threadVars>>

RunBackgroundTask(p) ==
    /\ backend = "async"
    /\ coros[p].pc = "responded"
    /\ Len(coros[p].ran) < Len(coros[p].tasks)
    /\ coros' = [coros EXCEPT ![p].ran = Append(@, NextTask(coros[p].tasks, @))]
    /\ UNCHANGED <<backend, itemVars, pairVars, authVars, loopTime, fetch, uploadVars,
                   threadVars>>

NextAsync ==
    \/ FetchSequentialBegin
    \/ FetchConcurrentBegin
    \/ \E k \in DOMAIN ItemIdsToFetch : CallStart(k)
    \/ \E k \in DOMAIN ItemIdsToFetch : CallFinish(k)
    \/ LoopAdvance
    \/ FetchReturn
    \/ \E p \in Procs, payload \in ItemCreate : CreateItemAsyncBegin(p, payload)
    \/ \E p \in Procs : CreateItemAsyncResume(p)
    \/ \E p \in Procs, item_title \in Titles, user_email \in Emails :
           BackgroundMultipleDemo(p, item_title, user_email)
    \/ \E p \in Procs : SendResponse(p)
    \/ \E p \in Procs : RunBackgroundTask(p)

SpecAsync == InitAsync /\ [][NextAsync]_vars

\* ------------------------------------------------- api/routes_upload.py
\* A filename is a sequence of characters, a file a filename and a content
\* length in bytes.  The directory UPLOAD_DIR is a function from file path
\* to the number of bytes the file holds.

UPLOAD_DIR == "uploads"

MAX_FILE_SIZE == 5 * 1024 * 1024

chunk_size == 8192

ALLOWED_EXTENSIONS ==
    { <<".", "j", "p", "g">>, <<".", "j", "p", "e", "g">>, <<".", "p", "n", "g">>,
      <<".", "g", "i", "f">>, <<".", "p", "d", "f">>, <<".", "t", "x", "t">>,
      <<".", "c", "s", "v">> }

FileNames ==
    { <<"t", ".", "t", "x", "t">>, <<"t", ".", "T", "x", "t">>,
      <<"t", ".", "e", "x", "e">>, <<"t", "x", "t">>, <<".", "t", "x", "t">> }

FileSizes == {13, MAX_FILE_SIZE, MAX_FILE_SIZE + 1}

UploadFiles == [filename : FileNames, size : FileSizes]

\* str.lower on the characters that occur in FileNames.
LowerChar(c) == CASE c = "T" -> "t"
                  [] c = "X" -> "x"
                  [] c = "E" -> "e"
                  [] OTHER -> c

lower(s) == [i \in DOMAIN s |-> LowerChar(s[i])]

\* str.rfind, with positions counted from 1 and 0 for "not found".
rfind(s, c) ==
    LET found == {i \in DOMAIN s : s[i] = c}
    IN  IF found = {} THEN 0 ELSE CHOOSE i \in found : \A j \in found : j <= i

\* os.path.splitext: the extension starts at the last dot of the last path
\* component, unless only dots precede it there.
splitext(p) ==
    LET sepIndex == rfind(p, "/")
        dotIndex == rfind(p, ".")
    IN  IF /\ dotIndex > sepIndex
           /\ \E i \in (sepIndex + 1)..(dotIndex - 1) : p[i] # "."
        THEN <<SubSeq(p, 1, dotIndex - 1), SubSeq(p, dotIndex, Len(p))>>
        ELSE <<p, <<>>>>

\* validate_file: the status of the HTTPException raised, 0 when none is.
validate_file(file) ==
    LET file_ext == lower(splitext(file.filename)[2])
    IN  IF file_ext \notin ALLOWED_EXTENSIONS THEN 400 ELSE 0

\* The read loop of save_upload_file on a content of size bytes: the j-th
\* read returns the j-th chunk of chunk_size bytes (the last one shorter),
\* after it file_size is Counted(j); the first read that takes file_size
\* over MAX_FILE_SIZE raises 413, every chunk before it has been written.
ReadChunks(size) ==
    LET reads      == (size + chunk_size - 1) \div chunk_size
        Counted(j) == IF j * chunk_size < size THEN j * chunk_size ELSE size
        over       == {j \in 1..reads : Counted(j) > MAX_FILE_SIZE}
    IN  IF over = {}
        THEN [code |-> 0, file_size |-> Counted(reads), written |-> Counted(reads)]
        ELSE LET j == CHOOSE k \in over : \A l \in over : k <= l
             IN  [code |-> 413, file_size |-> Counted(j), written |-> Counted(j - 1)]

FilePath(timestamp, filename) ==
    [dir |-> UPLOAD_DIR, timestamp |-> timestamp, filename |-> filename]

RemoveFile(dir, filepath) == [f \in DOMAIN dir \ {filepath} |-> dir[f]]

WriteFile(dir, filepath, size) ==
    [f \in DOMAIN dir \cup {filepath} |-> IF f = filepath THEN size ELSE dir[f]]

\* save_upload_file: open(filepath, "wb") creates or truncates the file; a
\* content over MAX_FILE_SIZE removes it again and raises 413.
save_upload_file(dir, now, upload_file) ==
    LET filepath == FilePath(now, upload_file.filename)
        read     == ReadChunks(upload_file.size)
    IN  IF read.code = 413
        THEN [code |-> 413, dir |-> RemoveFile(dir, filepath),
              filepath |-> filepath, file_size |-> read.file_size]
        ELSE [code |-> 0, dir |-> WriteFile(dir, filepath, read.written),
              filepath |-> filepath, file_size |-> read.file_size]

upload_file_SaveFirst(dir, now, file) ==
    LET saved == save_upload_file(dir, now, file)
    IN  IF validate_file(file) # 0
        THEN [code |-> 400, dir |-> saved.dir, filename |-> None, size |-> 0]
        ELSE IF saved.code # 0
        THEN [code |-> saved.code, dir |-> saved.dir, filename |-> None, size |-> 0]
        ELSE [code |-> 201, dir |-> saved.dir, filename |-> Some(file.filename),
              size |-> saved.file_size]

\* The handler of POST /upload: the status code, the directory afterwards,
\* and the filename and size of the FileUploadResponse.
upload_file(dir, now, file) ==
    IF validate_file(file) # 0
    THEN [code |-> 400, dir |-> dir, filename |-> None, size |-> 0]
    ELSE LET saved == save_upload_file(dir, now, file)
         IN  IF saved.code # 0
             THEN [code |-> saved.code, dir |-> saved.dir, filename |-> None,
                   size |-> 0]
             ELSE [code |-> 201, dir |-> saved.dir,
                   filename |-> Some(file.filename), size |-> saved.file_size]

\* The prefixes of the routers that main.py passes to app.include_router.
IncludedRouters == {"/api", "/api/v2", "/api/v3", "/api/v4"}

\* POST /api/v5/upload sent to the app of main.py: the handler runs if its
\* router is included, otherwise not_found_handler answers 404.
app_post_upload(dir, now, file) ==
    IF "/api/v5" \in IncludedRouters
    THEN upload_file(dir, now, file)
    ELSE [code |-> 404, dir |-> dir, filename |-> None, size |-> 0]

InitUpload == backend = "upload" /\ InitState /\ seeded = FALSE

notUploadVars == <<backend, itemVars, pairVars, authVars, asyncVars, threadVars>>

\* POST /upload served by the router of routes_upload.py.
UploadFile(file) ==
    /\ backend = "upload"
    /\ LET r == upload_file(upload_dir, uploadNow, file)
       IN  /\ upload_dir' = r.dir
           /\ uploadLast' = UploadCall("upload_file", Some(file), r.code,
                                       r.filename, r.size)
    /\ UNCHANGED <<uploadNow, notUploadVars>>

\* POST /api/v5/upload sent to the app object of main.py.
UploadThroughApp(file) ==
    /\ backend = "upload"
    /\ LET r == app_post_upload(upload_dir, uploadNow, file)
       IN  /\ upload_dir' = r.dir
           /\ uploadLast' = UploadCall("app", Some(file), r.code, r.filename,
                                       r.size)
    /\ UNCHANGED <<uploadNow, notUploadVars>>

\* DELETE /uploads/clear: rmtree, then the empty directory again.
ClearUploads ==
    /\ backend = "upload"
    /\ upload_dir' = [f \in {} |-> 0]
    /\ uploadLast' = UploadCall("clear_uploads", None, 200, None, 0)
    /\ UNCHANGED <<uploadNow, notUploadVars>>

\* A second passes on the clock that datetime.now() reads.
UploadTick ==
    /\ backend = "upload"
    /\ uploadNow < MaxClock
    /\ uploadNow' = uploadNow + 1
    /\ UNCHANGED <<upload_dir, uploadLast, notUploadVars>>

NextUpload ==
    \/ \E file \in UploadFiles : UploadFile(file)
    \/ \E file \in UploadFiles : UploadThroughApp(file)
    \/ ClearUploads
    \/ UploadTick

SpecUpload == InitUpload /\ [][NextUpload]_vars

\* ---- requests served by threadpool threads.  The handlers of routes.py and
\* routes_db.py are plain functions, so the server runs each request in a
\* worker thread; the threads share the one ItemRepository (each has a
\* database session of its own) and may be switched between any two of the
\* steps below.  Every thread serves one request.

InitThreads == backend \in {"mem", "db"} /\ InitState /\ seeded = FALSE

notThreadVars == <<backend, last, issued, everIssued, deleted, procs, pairVars,
                   authVars, asyncVars, uploadVars>>

\* One create request served alone, before the concurrent requests arrive.
ThreadSeed(payload) ==
    /\ ~seeded
    /\ \A p \in Procs : threads[p].pc = "idle"
    /\ IF backend = "mem"
       THEN LET r == ItemService_create_item(Repo, payload, clock)
            IN  /\ items' = r.st.items
                /\ next_id' = r.st.next_id
                /\ rows' = rows
       ELSE LET r == ItemDBService_create_item(rows, payload, clock, clock)
            IN  /\ rows' = r.st
                /\ UNCHANGED <<items, next_id>>
    /\ seeded' = TRUE
    /\ UNCHANGED <<threads, clock, notThreadVars>>

\* ItemService.create_item, first line: _ensure_title_unique reads the list
\* of items and raises ValueError on an equal title.
ThreadCreateCheck(p, payload) ==
    /\ backend = "mem"
    /\ threads[p].pc = "idle"
    /\ threads' = [threads EXCEPT ![p] =
           [@ EXCEPT !.pc = IF ItemService_ensure_title_unique(Repo, payload.title)
                            THEN "raised" ELSE "checked",
                     !.op = "create",
                     !.title = Some(payload.title),
                     !.description = payload.description]]
    /\ UNCHANGED <<items, next_id, rows, clock, seeded, notThreadVars>>

\* ItemRepository.create_item: Item(id=self._next_id, ...) reads the counter.
ThreadCreateRead(p) ==
    /\ threads[p].pc = "checked"
    /\ threads' = [threads EXCEPT ![p].pc = "built", ![p].id = next_id]
    /\ UNCHANGED <<items, next_id, rows, clock, seeded, notThreadVars>>

\* self._items[item.id] = item
ThreadCreateStore(p) ==
    /\ threads[p].pc = "built"
    /\ LET item == [id |-> threads[p].id, title |-> threads[p].title[1],
                    description |-> threads[p].description, is_done |-> FALSE,
                    created_at |-> clock, updated_at |-> clock]
       IN  items' = DictSet(items, item.id, item)
    /\ threads' = [threads EXCEPT ![p].pc = "stored"]
    /\ UNCHANGED <<next_id, rows, clock, seeded, notThreadVars>>

\* self._next_id += 1, the load of the attribute ...
ThreadCreateLoad(p) ==
    /\ threads[p].pc = "stored"
    /\ threads' = [threads EXCEPT ![p].pc = "loaded", ![p].tmp = next_id]
    /\ UNCHANGED <<items, next_id, rows, clock, seeded, notThreadVars>>

\* ... and the store of the sum; then return item.
ThreadCreateIncr(p) ==
    /\ threads[p].pc = "loaded"
    /\ next_id' = threads[p].tmp + 1
    /\ threads' = [threads EXCEPT ![p].pc = "done"]
    /\ UNCHANGED <<items, rows, clock, seeded, notThreadVars>>

\* ItemService.delete_item: one dict.pop, which no thread can interrupt.
ThreadDeleteMem(p, item_id) ==
    /\ backend = "mem"
    /\ threads[p].pc = "idle"
    /\ LET r == ItemService_delete_item(Repo, item_id)
       IN  /\ items' = r.st.items
           /\ threads' = [threads EXCEPT ![p] =
                  [@ EXCEPT !.pc = "done", !.op = "delete", !.id = item_id,
                            !.ret = Some(r.ret)]]
    /\ UNCHANGED <<next_id, rows, clock, seeded, notThreadVars>>

\* ItemDBService.delete_item, first line: the row is read; False if absent.
ThreadDeleteGet(p, item_id) ==
    /\ backend = "db"
    /\ threads[p].pc = "idle"
    /\ LET item == ItemDBRepository_get_item(rows, item_id)
       IN  threads' = [threads EXCEPT ![p] =
               [@ EXCEPT !.pc = IF item = None THEN "done" ELSE "got",
                         !.op = "delete", !.id = item_id,
                         !.ret = IF item = None THEN Some(FALSE) ELSE None]]
    /\ UNCHANGED <<items, next_id, rows, clock, seeded, notThreadVars>>

\* ItemDBRepository.delete_item: delete, commit, return True.  A DELETE that
\* matches no row any more is not an error of the session.
ThreadDeleteCommit(p) ==
    /\ threads[p].pc = "got"
    /\ LET r == ItemDBRepository_delete_item(rows, [id |-> threads[p].id])
       IN  /\ rows' = r.st
           /\ threads' = [threads EXCEPT ![p].pc = "done", ![p].ret = Some(r.ret)]
    /\ UNCHANGED <<items, next_id, clock, seeded, notThreadVars>>

NextThreads ==
    \/ \E payload \in ItemCreate : ThreadSeed(payload)
    \/ \E p \in Procs, payload \in ItemCreate : ThreadCreateCheck(p, payload)
    \/ \E p \in Procs : ThreadCreateRead(p)
    \/ \E p \in Procs : ThreadCreateStore(p)
    \/ \E p \in Procs : ThreadCreateLoad(p)
    \/ \E p \in Procs : ThreadCreateIncr(p)
    \/ \E p \in Procs, item_id \in Ids : ThreadDeleteMem(p, item_id)
    \/ \E p \in Procs, item_id \in Ids : ThreadDeleteGet(p, item_id)
    \/ \E p \in Procs : ThreadDeleteCommit(p)

SpecThreads == InitThreads /\ [][NextThreads]_vars

\* ------------------------------------------------------------ properties
\* What list() of the service under test returns, and the same as a set.
CurList == IF backend = "mem" THEN ItemService_list_items(Repo)
                              ELSE ItemDBService_list_items(rows)

CurItems == {CurList[i] : i \in DOMAIN CurList}

CurIds == {it.id : it \in CurItems}

ItemOf(S, id) == CHOOSE it \in S : it.id = id

StoreUnchanged == items' = items /\ next_id' = next_id /\ rows' = rows

\* The store of the service under test and its calls on that store.
CurStore == IF backend = "mem" THEN Repo ELSE rows

ListOf(st) == IF backend = "mem" THEN ItemRepository_list_items(st)
                                 ELSE ItemDBRepository_list_items(st)

SvcCreate(payload, created, updated) ==
    IF backend = "mem" THEN ItemService_create_item(Repo, payload, updated)
                       ELSE ItemDBService_create_item(rows, payload, created, updated)

SvcUpdate(item_id, payload, now) ==
    IF backend = "mem" THEN ItemService_update_item(Repo, item_id, payload, now)
                       ELSE ItemDBService_update_item(rows, item_id, payload, now)

\* C1: after any sequence of service calls made one at a time from an empty
\* store, no two items present in the store have the same title.
TitlesUnique ==
    \A i, j \in DOMAIN CurList : i # j => CurList[i].title # CurList[j].title

TitlesUniqueWitness ==
    /\ Len(CurList) = 2
    /\ last.status = "dup"
    /\ last.op = "update"

\* C2: a create whose title equals the title of an item in the store fails
\* with the duplicate-title error and leaves items, their fields and the next
\* identifier as they were.
DuplicateCreateRejected ==
    /\ [](\A payload \in ItemCreate, t1 \in Times :
             (\E it \in CurItems : it.title = payload.title)
             => LET r == SvcCreate(payload, t1, t1)
                IN  r.status = "dup" /\ r.ret = None /\ r.st = CurStore)
    /\ [][last'.op = "create" /\ last'.status = "dup" => StoreUnchanged]_vars
    /\ [][last'.op = "create" /\ last'.status = "ok"
            => \A it \in CurItems : it.title # ItemOf(CurItems', last'.id).title]_vars

DuplicateCreateWitness ==
    /\ last.op = "create"
    /\ last.status = "dup"
    /\ Len(CurList) = 2

\* C3: when two concurrent creates with the same title have both passed the
\* uniqueness check and both inserted, the store holds two items with that
\* title.
RaceStoresBoth ==
    \A p, q \in Procs :
        /\ p # q
        /\ procs[p].pc = "done" /\ procs[q].pc = "done"
        /\ procs[p].title = procs[q].title
        => \E i, j \in DOMAIN CurList :
               /\ i # j
               /\ CurList[i].id = procs[p].id /\ CurList[j].id = procs[q].id
               /\ CurList[i].title = procs[p].title[1]
               /\ CurList[j].title = procs[p].title[1]

RaceDuplicateStored ==
    /\ \E p, q \in Procs :
          p # q /\ procs[p].pc = "done" /\ procs[q].pc = "done"
                /\ procs[p].title = procs[q].title
    /\ ~TitlesUnique

\* C4 as stated: over the whole lifetime of an ItemRepository, resets
\* included, every id handed out is larger than all ids handed out before.
IdsIncreaseOverLifetime ==
    [][backend = "mem" /\ last'.op = "create" /\ last'.status = "ok"
          => \A i \in everIssued : i < last'.id]_vars

\* C4 amended: between construction or a reset and the next reset, the ids
\* handed out are strictly increasing, so none is handed out twice, whatever
\* was deleted in between.
IdsIncreaseSinceReset ==
    backend = "mem" => \A i, j \in DOMAIN issued : i < j => issued[i] < issued[j]

IdsIncreaseWitness ==
    /\ backend = "mem"
    /\ last.op = "create" /\ last.status = "ok"
    /\ deleted # {}
    /\ Len(issued) = 2

\* C5: the k-th successful create since construction or the last reset is
\* given id k, whatever deletes, updates or failed creates came in between.
IdIsCreateCount ==
    backend = "mem" => \A k \in DOMAIN issued : issued[k] = k

IdIsCreateCountWitness ==
    /\ backend = "mem"
    /\ last.op = "create" /\ last.status = "ok" /\ last.id = 2
    /\ Len(items) = 1
    /\ Cardinality(everIssued) = 2

\* C6: a successful update sets the supplied fields and leaves the fields
\* not supplied, the id and created_at as they were; no other item changes
\* and no item appears or disappears.
UpdateFrame ==
    /\ [](\A item_id \in Ids, payload \in ItemUpdate, now \in Times :
             LET r == SvcUpdate(item_id, payload, now)
             IN  r.status = "ok"
                 => LET old == ItemOf(CurItems, item_id)
                        new == r.ret[1]
                        after == ListOf(r.st)
                    IN  /\ \E i \in DOMAIN after : after[i] = new
                        /\ new.id = item_id
                        /\ new.created_at = old.created_at
                        /\ new.title = IF payload.title = None THEN old.title
                                       ELSE payload.title[1]
                        /\ new.description = IF payload.description = None
                                             THEN old.description
                                             ELSE payload.description
                        /\ new.is_done = IF payload.is_done = None THEN old.is_done
                                         ELSE payload.is_done[1])
    /\ [][last'.op = "update" /\ last'.status = "ok"
            => /\ CurIds' = CurIds
               /\ last'.id \in CurIds
               /\ \A other \in CurItems : other.id # last'.id => other \in CurItems'
               /\ ItemOf(CurItems', last'.id).created_at
                     = ItemOf(CurItems, last'.id).created_at]_vars

UpdateFrameWitness ==
    /\ last.op = "update" /\ last.status = "ok"
    /\ Len(CurList) = 2
    /\ \E it \in CurItems : it.id = last.id /\ it.is_done /\ it.description # None

\* C7 as stated: a successful update leaves updated_at strictly greater than
\* it was.
UpdatedAtStrictlyIncreases ==
    [][last'.op = "update" /\ last'.status = "ok"
          => ItemOf(CurItems', last'.id).updated_at > ItemOf(CurItems, last'.id).updated_at]_vars

\* C7 amended: a successful update sets updated_at to the clock value it
\* reads; with a clock that does not go backwards the new value is never
\* smaller than the old one, and it is equal when the clock has not advanced.
UpdatedAtIsClockReading ==
    [][last'.op = "update" /\ last'.status = "ok"
          => /\ ItemOf(CurItems', last'.id).updated_at = clock'
             /\ ItemOf(CurItems', last'.id).updated_at >= ItemOf(CurItems, last'.id).updated_at]_vars

UpdatedAtWitness ==
    /\ last.op = "update" /\ last.status = "ok"
    /\ \E it \in CurItems : it.id = last.id /\ it.updated_at > it.created_at

\* C8: every item in the store has updated_at >= created_at.
UpdatedNotBeforeCreated ==
    \A it \in CurItems : it.updated_at >= it.created_at

UpdatedNotBeforeCreatedWitness ==
    \E a, b \in CurItems :
        /\ a.updated_at > a.created_at
        /\ b.updated_at = b.created_at
        /\ b.created_at > 0

\* C9: delete of an id that is present returns true, a second delete of it
\* right after returns false and changes nothing; delete of an id that is
\* not present returns false and changes nothing.  CreatedTasks services.
DeleteTwice ==
    [][last'.op = "delete"
          => /\ last'.status \in {"ok", "absent"}
             /\ last'.id \in CurIds => last'.status = "ok" /\ last'.id \notin CurIds'
             /\ last'.id \notin CurIds => last'.status = "absent" /\ StoreUnchanged
             /\ last.op = "delete" /\ last.status = "ok" /\ last.id = last'.id
                => last'.status = "absent" /\ StoreUnchanged]_vars

DeleteTwiceWitness ==
    /\ backend = "mem"
    /\ last.op = "delete" /\ last.status = "absent"
    /\ last.id \in deleted
    /\ CurIds # {}

\* C10: in the memory store an id that was deleted stays absent from get and
\* list until a reset; a successful delete removes that one item and leaves
\* the other items, their order and the next identifier as they were.
DeletedStaysAbsent ==
    /\ [](backend = "mem" =>
            \A id \in deleted :
                /\ ItemService_get_item(Repo, id) = None
                /\ \A i \in DOMAIN ItemService_list_items(Repo) :
                       ItemService_list_items(Repo)[i].id # id)
    /\ [][backend = "mem" /\ last'.op = "delete" /\ last'.status = "ok"
            => /\ Len(items') = Len(items) - 1
               /\ \A i \in DOMAIN items :
                      items[i].id # last'.id => \E j \in DOMAIN items' : items'[j] = items[i]
               /\ next_id' = next_id]_vars

DeletedStaysAbsentWitness ==
    /\ backend = "mem"
    /\ last.op = "get" /\ last.status = "absent"
    /\ last.id \in deleted
    /\ Len(items) = 1

\* get_item of the service under test, on a store value of that service.
GetOf(st, item_id) == IF backend = "mem" THEN ItemService_get_item(st, item_id)
                                         ELSE ItemDBService_get_item(st, item_id)

\* C11: right after reset() the memory store lists nothing and equals a newly
\* constructed one, so the next successful create is given id 1.
ResetRestores ==
    backend = "mem" =>
        /\ last.op = "reset" =>
              /\ ItemService_list_items(Repo) = <<>>
              /\ Repo = ItemRepository_init
              /\ \A payload \in ItemCreate, now \in Times :
                     LET r == ItemService_create_item(Repo, payload, now)
                     IN  r.status = "ok" /\ r.ret[1].id = 1
        /\ last.op = "create" /\ last.status = "ok" /\ Len(issued) = 1 => last.id = 1

ResetRestoresWitness ==
    /\ backend = "mem"
    /\ last.op = "create" /\ last.status = "ok" /\ last.id = 1
    /\ Cardinality(everIssued) = 2
    /\ issued = <<1>>

\* C12: creating an item with a title not yet present and then getting it by
\* the returned id gives that title, that description and is_done = false,
\* and the list is one item longer.
CreateGetRoundTrip ==
    \A payload \in ItemCreate, now \in Times :
        (\A it \in CurItems : it.title # payload.title)
        => LET r == SvcCreate(payload, now, now)
           IN  /\ r.status = "ok"
               /\ LET got == GetOf(r.st, r.ret[1].id)
                  IN  /\ got # None
                      /\ got[1].id = r.ret[1].id
                      /\ got[1].title = payload.title
                      /\ got[1].description = payload.description
                      /\ got[1].is_done = FALSE
               /\ Len(ListOf(r.st)) = Len(CurList) + 1

CreateGetRoundTripWitness ==
    /\ last.op = "get" /\ last.status = "ok"
    /\ Len(CurList) = 2
    /\ \E it \in CurItems : it.id = last.id /\ it.description # None /\ ~it.is_done

\* C13: an update that supplies a title different from the item's own and
\* equal to another item's title fails with the duplicate-title error and
\* changes nothing, whatever else the payload supplies.
ConflictingUpdateRejected ==
    \A item_id \in CurIds, payload \in ItemUpdate, now \in Times :
        /\ payload.title # None
        /\ payload.title[1] # ItemOf(CurItems, item_id).title
        /\ \E other \in CurItems : other.title = payload.title[1]
        => LET r == SvcUpdate(item_id, payload, now)
           IN  r.status = "dup" /\ r.ret = None /\ r.st = CurStore

ConflictingUpdateWitness ==
    /\ last.op = "update" /\ last.status = "dup"
    /\ \E it \in CurItems : it.id = last.id /\ it.updated_at = it.created_at
    /\ clock = 0

\* C14: an update whose title equals the item's current title never fails
\* with the duplicate-title error; it applies the other supplied fields and
\* the title stays as it was.
OwnTitleUpdateAccepted ==
    \A item_id \in CurIds, payload \in ItemUpdate, now \in Times :
        LET old == ItemOf(CurItems, item_id)
        IN  payload.title = Some(old.title)
            => LET r == SvcUpdate(item_id, payload, now)
               IN  /\ r.status = "ok"
                   /\ r.ret[1].title = old.title
                   /\ r.ret[1].description = IF payload.description = None
                                             THEN old.description
                                             ELSE payload.description
                   /\ r.ret[1].is_done = IF payload.is_done = None THEN old.is_done
                                         ELSE payload.is_done[1]
                   /\ GetOf(r.st, item_id) = r.ret

OwnTitleUpdateWitness ==
    /\ last.op = "update" /\ last.status = "ok"
    /\ Len(CurList) = 2
    /\ \A it \in CurItems : it.is_done /\ it.updated_at > it.created_at

\* C15: an update of an id that is not in the store returns absent, never
\* the duplicate-title error, and changes nothing, whatever the payload.
AbsentUpdateReturnsNone ==
    \A item_id \in Ids \ CurIds, payload \in ItemUpdate, now \in Times :
        LET r == SvcUpdate(item_id, payload, now)
        IN  r.status = "absent" /\ r.ret = None /\ r.st = CurStore

AbsentUpdateWitness ==
    /\ last.op = "update" /\ last.status = "absent"
    /\ Len(CurList) = 1
    /\ last.id \notin CurIds

\* C17: the memory store lists its items in creation order, which is
\* ascending id order; an update leaves every item at its position.
ListInCreationOrder ==
    backend = "mem" =>
        LET l == ItemService_list_items(Repo)
        IN  /\ \A i, j \in DOMAIN l : i < j => l[i].id < l[j].id
            /\ \A i \in DOMAIN l, payload \in ItemUpdate, now \in Times :
                   LET r == ItemService_update_item(Repo, l[i].id, payload, now)
                   IN  r.status = "ok" => ItemService_list_items(r.st)[i] = r.ret[1]

ListInCreationOrderWitness ==
    /\ backend = "mem"
    /\ Len(items) = 2
    /\ last.op = "update" /\ last.status = "ok" /\ last.id = items[1].id
    /\ items[1].updated_at > items[2].updated_at

\* C16: on the item routes a duplicate-title failure of create or update is
\* answered with 400 and an absent result of get, update or delete with 404;
\* neither is ever answered with 200 or 201.
ErrorsMappedToStatus ==
    /\ last.op \in {"create", "update"} /\ last.status = "dup" => last.code = 400
    /\ last.op \in {"get", "update", "delete"} /\ last.status = "absent" => last.code = 404
    /\ last.code \in {200, 201} => last.status = "ok"

ErrorsMappedToStatusWitness ==
    /\ last.op = "update" /\ last.status = "absent" /\ last.code = 404
    /\ CurIds = {1}

\* The (title, description, is_done) of the items a list() returned, and the
\* same with the id.
Triples(l) == {<<l[i].title, l[i].description, l[i].is_done>> : i \in DOMAIN l}

Visible(l) == [i \in DOMAIN l |-> [id |-> l[i].id, title |-> l[i].title,
                                   description |-> l[i].description,
                                   is_done |-> l[i].is_done]]

\* C18 as stated: whatever the calls, both services answer each call with the
\* same result and hold the same (title, description, is_done) collection.
BackendsInterchangeable ==
    backend = "both" =>
        /\ last.status = lastDb.status
        /\ Triples(ItemService_list_items(Repo)) = Triples(ItemDBService_list_items(rows))

\* C18: as long as no item was created after the item with the highest id
\* handed out so far had been deleted, both services answer each call alike,
\* returned id included, and list the same items with the same ids.
BackendsAgreeUntilIdReuse ==
    backend = "both" /\ ~createAfterTopDelete =>
        /\ last = lastDb
        /\ Visible(ItemService_list_items(Repo)) = Visible(ItemDBService_list_items(rows))

BackendsAgreeWitness ==
    /\ backend = "both" /\ ~createAfterTopDelete
    /\ last.op = "get" /\ last.status = "absent" /\ lastDb.status = "absent"
    /\ Len(items) = 1 /\ next_id = 3 /\ items[1].is_done

ProtectedOps == {"list", "create", "get", "update", "delete"}

\* What is wrong with a bearer token, if anything.
Unacceptable(token) ==
    \/ token = None
    \/ token[1].sig # <<SECRET_KEY, token[1].claims>>
    \/ token[1].claims.exp < minute
    \/ token[1].claims.sub = None
    \/ token[1].claims.sub[1] \notin DOMAIN fake_users_db

\* C19: a request to a protected item route that carries no token, a token
\* with a bad signature or past its expiry, a token without sub, or a token
\* whose sub is not a registered user is answered 401; the item service is
\* not called and the items table is as before.
ProtectedNeedsUser ==
    /\ [](\A token \in Bearer :
             Unacceptable(token)
             => get_current_active_user(fake_users_db, token, minute)
                    = [code |-> 401, user |-> None])
    /\ [][authLast'.op \in ProtectedOps /\ authLast'.code = 401
          => rows' = rows /\ last' = last /\ ~authLast'.served]_vars

ProtectedNeedsUserWitness ==
    /\ authLast.op = "delete" /\ authLast.code = 401
    /\ DOMAIN fake_users_db = {"alice"}
    /\ DOMAIN rows = {1}
    /\ minute > 0

DescriptionStays ==
    \A item_id \in CurIds, payload \in ItemUpdate, now \in Times :
        LET old == ItemOf(CurItems, item_id)
            r   == SvcUpdate(item_id, payload, now)
        IN  r.status = "ok"
            => /\ old.description # None => r.ret[1].description # None
               /\ r.ret[1].description \in Opt(Descs)
               /\ r.ret[1].title \in Titles
               /\ r.ret[1].is_done \in BOOLEAN
               /\ GetOf(r.st, item_id) = r.ret

DescriptionStaysWitness ==
    /\ last.op = "update" /\ last.status = "ok"
    /\ Len(CurList) = 1
    /\ \E it \in CurItems : /\ it.id = last.id
                            /\ it.description # None
                            /\ it.is_done
                            /\ it.updated_at > it.created_at

RECURSIVE SumOfDelays(_)
SumOfDelays(n) == IF n = 0 THEN 0 ELSE Delay(ItemIdsToFetch[n]) + SumOfDelays(n - 1)

MaxOfDelays ==
    CHOOSE d \in {Delay(ItemIdsToFetch[k]) : k \in DOMAIN ItemIdsToFetch} :
        \A k \in DOMAIN ItemIdsToFetch : Delay(ItemIdsToFetch[k]) <= d

\* C21: the concurrent fetch has started every call before any call
\* completes and takes the largest delay, under 1.0 s; the sequential fetch
\* starts a call only after the one before it completed and takes the sum of
\* the delays, at least 1.0 s; both return the results in the order of the ids.
FetchDurations ==
    /\ fetch.route = "concurrent" =>
          /\ (\E k \in DOMAIN fetch.calls : fetch.calls[k].pc = "done")
             => \A k \in DOMAIN fetch.calls : fetch.calls[k].pc # "new"
          /\ fetch.elapsed # None =>
                fetch.elapsed[1] = MaxOfDelays /\ fetch.elapsed[1] < 10
    /\ fetch.route = "sequential" =>
          /\ \A k \in DOMAIN fetch.calls :
                 k > 1 /\ fetch.calls[k].pc # "new" => fetch.calls[k - 1].pc = "done"
          /\ fetch.elapsed # None =>
                /\ fetch.elapsed[1] = SumOfDelays(Len(ItemIdsToFetch))
                /\ fetch.elapsed[1] >= 10
    /\ fetch.elapsed # None => fetch.results = ItemIdsToFetch

FetchDurationsWitness ==
    /\ fetch.route = "concurrent"
    /\ fetch.elapsed # None
    /\ fetch.finished = <<3, 1, 2>>
    /\ fetch.results = <<1, 2, 3>>

CreatedTasks == <<"write_log", "process_item_created">>

\* C24: create_item_async adds no background task when the create fails with
\* a duplicate title, and adds write_log then process_item_created when it
\* succeeds; send_email_notification follows only where a user email is
\* given; tasks run only once the response is out, in the order added.
BackgroundAfterResponse ==
    \A p \in Procs :
        LET c == coros[p]
        IN  /\ c.pc \in {"idle", "sleeping"} => c.tasks = <<>>
            /\ c.route = "create" /\ c.pc \in {"returned", "responded"} =>
                  \/ c.code = 400 /\ c.tasks = <<>>
                  \/ c.code = 201 /\ c.tasks = CreatedTasks
            /\ c.route = "multiple" =>
                  c.tasks = IF c.email = Some("")
                            THEN CreatedTasks ELSE CreatedTasks \o <<"send_email_notification">>
            /\ c.pc # "responded" => c.ran = <<>>
            /\ Len(c.ran) <= Len(c.tasks)
            /\ c.ran = SubSeq(c.tasks, 1, Len(c.ran))

BackgroundAfterResponseWitness ==
    \E p, q \in Procs :
        /\ coros[p].route = "create" /\ coros[p].code = 201
        /\ coros[p].ran = CreatedTasks
        /\ coros[q].route = "create" /\ coros[q].code = 400
        /\ coros[q].pc = "responded"

\* C25: however create_item_async coroutines interleave on the event loop,
\* no two of them pass the uniqueness check with the same title, and no two
\* rows have the same title.
AsyncTitlesUnique ==
    /\ \A j, k \in DOMAIN rows : j # k => rows[j].title # rows[k].title
    /\ \A p, q \in Procs :
           /\ p # q
           /\ coros[p].route = "create" /\ coros[p].code = 201
           /\ coros[q].route = "create" /\ coros[q].code = 201
           => coros[p].title # coros[q].title

AsyncTitlesUniqueWitness ==
    \E p, q \in Procs :
        /\ coros[p].route = "create" /\ coros[p].code = 201
        /\ coros[q].route = "create" /\ coros[q].pc = "sleeping"
        /\ coros[q].title = coros[p].title
        /\ Cardinality(DOMAIN rows) = 1

\* The filename ends, compared case-insensitively, with an allowed extension.
EndsWithAllowed(filename) ==
    \E ext \in ALLOWED_EXTENSIONS :
        /\ Len(filename) >= Len(ext)
        /\ lower(SubSeq(filename, Len(filename) - Len(ext) + 1, Len(filename))) = ext

\* C22: a file with an allowed extension and at most MAX_FILE_SIZE bytes,
\* posted to /api/v5/upload of the app of main.py, is answered 201 with its
\* original filename and a size equal to the bytes written to a file.
UploadThroughAppSucceeds ==
    (/\ uploadLast.op = "app"
     /\ validate_file(uploadLast.file[1]) = 0
     /\ uploadLast.file[1].size <= MAX_FILE_SIZE)
    => /\ uploadLast.code = 201
       /\ uploadLast.filename = Some(uploadLast.file[1].filename)
       /\ \E f \in DOMAIN upload_dir :
              /\ f.filename = uploadLast.file[1].filename
              /\ upload_dir[f] = uploadLast.size

OnlyThreads(p, q) == \A o \in Procs \ {p, q} : threads[o].pc = "idle"

\* C26: two create calls with different titles that ran concurrently on the
\* same fresh ItemRepository have both returned: the returned ids differ,
\* each item is in the store, and _next_id has advanced by two.
ConcurrentCreatesDistinct ==
    \A p, q \in Procs :
        (/\ p # q
         /\ backend = "mem"
         /\ ~seeded
         /\ OnlyThreads(p, q)
         /\ threads[p].op = "create" /\ threads[p].pc = "done"
         /\ threads[q].op = "create" /\ threads[q].pc = "done"
         /\ threads[p].title # threads[q].title)
        => /\ threads[p].id # threads[q].id
           /\ \A o \in {p, q} :
                  /\ DictGet(items, threads[o].id) # None
                  /\ DictGet(items, threads[o].id)[1].title = threads[o].title[1]
           /\ next_id = ItemRepository_init.next_id + 2

\* C27: two delete calls for the same id, which the store held when they
\* started, have both returned: exactly one returned True and the other
\* False, with the memory-backed and with the table-backed service.
ConcurrentDeletesOneTrue ==
    \A p, q \in Procs :
        (/\ p # q
         /\ seeded
         /\ OnlyThreads(p, q)
         /\ threads[p].op = "delete" /\ threads[p].pc = "done"
         /\ threads[q].op = "delete" /\ threads[q].pc = "done"
         /\ threads[p].id = 1 /\ threads[q].id = 1)
        => \/ threads[p].ret = Some(TRUE) /\ threads[q].ret = Some(FALSE)
           \/ threads[p].ret = Some(FALSE) /\ threads[q].ret = Some(TRUE)

====
